---- MODULE Spec2Model ----
(***************************************************************************)
(* A model of the MonthlyReport Azure Functions of ulchatur/fnc-app-stgmail.*)
(*                                                                         *)
(* Two variants of the function are modelled:                              *)
(*   "blob_email"  src/MonthlyReport/__init__.py      (storage + email)    *)
(*   "email_only"  src/MonthlyReport/__init__ (3).py  (email attachment)   *)
(*                                                                         *)
(* One invocation of main is a run r.  Each action is one step of main:    *)
(* a helper call together with the outcome of the network call it makes.   *)
(*                                                                         *)
(* Costs are binary floating-point numbers in the source.  The model draws *)
(* them from the multiples of 1/16 dollar, which a double represents       *)
(* exactly, so that float addition is exact and both round(x, 2) and       *)
(* format(x, ".2f") round the exact value, ties to even.  A cost is carried*)
(* as the integer number of sixteenths.                                    *)
(***************************************************************************)
EXTENDS Integers, Sequences, FiniteSets, TLC

\* ------------------------------------------------------------- bounds
\* Accounts are numbered 1..MaxSubs; an enumeration returns at most MaxSubs.
MaxSubs == 2
\* Cost cells range over MinCost..MaxCost sixteenths of a dollar.
MaxCost == 3
\* The calendar years date.today() is drawn from in SpecDate.
FirstYear == 2023
NumYears == 3
\* generate_csv reads the clock 0..MaxSecond seconds after midnight.
MaxSecond == 1

MinCost == 0 - 1
Runs == {1, 2}
Variants == {"blob_email", "email_only"}
Null == [null |-> TRUE]

\* ------------------------------------------------------------- text
\* str() of a decimal digit.
Digit(d) ==
  CASE d = 0 -> "0" [] d = 1 -> "1" [] d = 2 -> "2" [] d = 3 -> "3"
    [] d = 4 -> "4" [] d = 5 -> "5" [] d = 6 -> "6" [] d = 7 -> "7"
    [] d = 8 -> "8" [] d = 9 -> "9"

\* str(n) for an integer n >= 0.
RECURSIVE DecStr(_)
DecStr(n) == IF n < 10 THEN Digit(n) ELSE DecStr(n \div 10) \o Digit(n % 10)

\* n formatted with at least two digits ("%02d").
Pad2(n) == IF n < 10 THEN "0" \o Digit(n) ELSE DecStr(n)

\* n formatted with at least four digits ("%04d").
Pad4(n) ==
  IF n < 10 THEN "000" \o DecStr(n)
  ELSE IF n < 100 THEN "00" \o DecStr(n)
  ELSE IF n < 1000 THEN "0" \o DecStr(n)
  ELSE DecStr(n)

\* ------------------------------------------------------------- dates
\* datetime.date: proleptic Gregorian calendar.
IsLeap(y) == (y % 4 = 0) /\ ((y % 100 # 0) \/ (y % 400 = 0))

DaysInMonth(y, m) ==
  IF m = 2 THEN (IF IsLeap(y) THEN 29 ELSE 28)
  ELSE IF m \in {4, 6, 9, 11} THEN 30 ELSE 31

\* Number of days before January 1st of year y.
DaysBeforeYear(y) ==
  (y - 1) * 365 + ((y - 1) \div 4) - ((y - 1) \div 100) + ((y - 1) \div 400)

\* Number of days in year y before the first day of month m.
RECURSIVE DaysBeforeMonth(_, _)
DaysBeforeMonth(y, m) ==
  IF m = 1 THEN 0 ELSE DaysBeforeMonth(y, m - 1) + DaysInMonth(y, m - 1)

\* date.toordinal()
ToOrdinal(d) == DaysBeforeYear(d.year) + DaysBeforeMonth(d.year, d.month) + d.day

Years == (FirstYear - 1) .. (FirstYear + NumYears - 1)

\* date.fromordinal(n), for ordinals of the years the model covers.
FromOrdinal(n) ==
  LET y == CHOOSE yy \in Years :
             DaysBeforeYear(yy) < n /\ n <= DaysBeforeYear(yy + 1)
      m == CHOOSE mm \in 1..12 :
             /\ DaysBeforeYear(y) + DaysBeforeMonth(y, mm) < n
             /\ n <= DaysBeforeYear(y) + DaysBeforeMonth(y, mm) + DaysInMonth(y, mm)
  IN  [year |-> y, month |-> m,
       day |-> n - DaysBeforeYear(y) - DaysBeforeMonth(y, m)]

\* date.isoformat(): YYYY-MM-DD
IsoFormat(d) == Pad4(d.year) \o "-" \o Pad2(d.month) \o "-" \o Pad2(d.day)

\* Every calendar date of the years FirstYear .. FirstYear + NumYears - 1.
AllDates ==
  { [year |-> y, month |-> m, day |-> dd] :
      y \in FirstYear .. (FirstYear + NumYears - 1), m \in 1..12, dd \in 1..31 }
  \ { d \in [year : FirstYear .. (FirstYear + NumYears - 1),
             month : 1..12, day : 29..31] : d.day > DaysInMonth(d.year, d.month) }

\* The dates a run of main is invoked on in Spec: one in January, one not.
RunDates ==
  { [year |-> FirstYear + 1, month |-> 1, day |-> 15],
    [year |-> FirstYear + 1, month |-> 3, day |-> 31] }

get_previous_month_range_no_rollover(today) ==
  LET prev == IF today.month = 1 THEN 12 ELSE today.month - 1
      last_day_prev_month ==
        [year |-> today.year, month |-> prev, day |-> DaysInMonth(today.year, prev)]
  IN  [start_date |-> IsoFormat([last_day_prev_month EXCEPT !.day = 1]),
       end_date |-> IsoFormat(last_day_prev_month)]

\* get_previous_month_range(), with date.today() passed in.
get_previous_month_range(today) ==
  LET first_day_this_month == [today EXCEPT !.day = 1]
      last_day_prev_month == FromOrdinal(ToOrdinal(first_day_this_month) - 1)
      first_day_prev_month == [last_day_prev_month EXCEPT !.day = 1]
  IN  [start_date |-> IsoFormat(first_day_prev_month),
       end_date |-> IsoFormat(last_day_prev_month)]

\* ------------------------------------------------------------- exceptions
\* The result of a call: a returned value, or a raised exception class.
\* An exception carries its class, its message (str(e)) and the function that
\* raised it, which is what its traceback shows.
Return(v) == [exc |-> "none", msg |-> "", tb |-> "", value |-> v]
Raise(c, m, where) == [exc |-> c, msg |-> m, tb |-> where, value |-> Null]

\* isinstance(e, requests.exceptions.Timeout)
IsTimeout(c) == c = "Timeout"
\* isinstance(e, requests.exceptions.RequestException)
IsRequestException(c) == c \in {"Timeout", "ConnectionError", "HTTPError"}
\* isinstance(e, ValueError)
IsValueError(c) == c = "ValueError"

\* ------------------------------------------------------------- HTTP replies
\* What requests.get / requests.post does: raise Timeout, raise another
\* RequestException, or return a response with a status code and a body.
TimeoutReply == [kind |-> "timeout", status_code |-> 0, json |-> Null]
ConnectionErrorReply == [kind |-> "connection_error", status_code |-> 0, json |-> Null]
Response(code, body) == [kind |-> "response", status_code |-> code, json |-> body]

\* A response body that is valid JSON but not an object (a list, a string).
NotAnObject == [shape |-> "not_object"]

\* The exception requests raises instead of returning a response, if any.
RequestExc(reply) ==
  IF reply.kind = "timeout" THEN "Timeout"
  ELSE IF reply.kind = "connection_error" THEN "ConnectionError"
  ELSE "none"

\* ------------------------------------------------------------- floats
\* A Python float: not-a-number, or v sixteenths of a dollar.
Float(k) == [nan |-> FALSE, v |-> k]
NaN == [nan |-> TRUE, v |-> 0]

\* a + b
FAdd(a, b) == IF a.nan \/ b.nan THEN NaN ELSE Float(a.v + b.v)
\* a > 0
FPositive(a) == ~a.nan /\ a.v > 0

\* A cell of a cost row, as parsed from JSON: a number, NaN, a string that is
\* not a number, or null.
NumCell(k) == [kind |-> "num", v |-> k]
NaNCell == [kind |-> "nan", v |-> 0]
TextCell == [kind |-> "text", v |-> 0]
NullCell == [kind |-> "null", v |-> 0]

\* float(cell)
ToFloat(cell) ==
  CASE cell.kind = "num" -> Return(Float(cell.v))
    [] cell.kind = "nan" -> Return(NaN)
    [] cell.kind = "text" ->
         Raise("ValueError", "could not convert string to float", "generate_csv")
    [] cell.kind = "null" ->
         Raise("TypeError", "float() argument must be a string or a real number",
               "generate_csv")

\* The number of cents nearest to k sixteenths of a dollar (k * 6.25 cents),
\* ties to the even cent: what round(x, 2) and "%.2f" denote for exact x.
RoundCents(k) ==
  LET n == 25 * k
      lo == n \div 4
      rem == n % 4
  IN  IF rem < 2 THEN lo
      ELSE IF rem > 2 THEN lo + 1
      ELSE IF lo % 2 = 0 THEN lo ELSE lo + 1

Abs(n) == IF n < 0 THEN 0 - n ELSE n

\* repr() of the float nearest to c cents, c >= 0: at least one decimal, no
\* trailing zero after it (0.0, 0.5, 0.12, 1.0).
ShortestDecimal(c) ==
  LET frac == c % 100
  IN  DecStr(c \div 100) \o "." \o
      (IF frac % 10 = 0 THEN Digit(frac \div 10) ELSE Pad2(frac))

\* c cents, c >= 0, in fixed point with two decimals (0.00, 0.50, 0.12, 1.00).
FixedDecimal(c) == DecStr(c \div 100) \o "." \o Pad2(c % 100)

\* str(round(x, 2)), which is what csv.writer writes for the float round(x, 2).
ReprRound2(x) ==
  IF x.nan THEN "nan"
  ELSE (IF x.v < 0 THEN "-" ELSE "") \o ShortestDecimal(Abs(RoundCents(x.v)))

\* f"{x:.2f}"
Format2f(x) ==
  IF x.nan THEN "nan"
  ELSE (IF x.v < 0 THEN "-" ELSE "") \o FixedDecimal(Abs(RoundCents(x.v)))

\* ------------------------------------------------------------- configuration
\* os.environ: each variable is absent, set to the empty string, or set.
EnvStatus == {"absent", "empty", "set"}

\* main's required_vars, in the order the source lists them.
required_vars(v) ==
  IF v = "blob_email"
  THEN << "TENANT_ID", "CLIENT_ID", "CLIENT_SECRET",
          "AZURE_STORAGE_CONNECTION_STRING", "ACS_CONNECTION_STRING",
          "ACS_SENDER_EMAIL" >>
  ELSE << "TENANT_ID", "CLIENT_ID", "CLIENT_SECRET",
          "ACS_CONNECTION_STRING", "ACS_SENDER_EMAIL", "ACS_RECIPIENT_EMAIL" >>

Range(s) == { s[i] : i \in DOMAIN s }

\* The environments of a variant: a status for each variable the variant reads.
Envs(v) == [Range(required_vars(v)) -> EnvStatus]

\* not os.environ.get(var): the variable is absent or empty.
NotSet(e, var) == e[var] # "set"

\* [var for var in required_vars if not os.environ.get(var)]
missing_vars(v, e) ==
  LET Missing(var) == NotSet(e, var) IN SelectSeq(required_vars(v), Missing)

\* ', '.join(names)
RECURSIVE Join(_)
Join(names) ==
  IF Len(names) = 0 THEN ""
  ELSE IF Len(names) = 1 THEN names[1]
  ELSE names[1] \o ", " \o Join(Tail(names))

\* ------------------------------------------------------------- get_access_token
\* The body of a token response: an object with or without "access_token".
TokenJson(t) == [shape |-> "object", has_token |-> TRUE, access_token |-> t]
NoTokenJson == [shape |-> "object", has_token |-> FALSE, access_token |-> 0]

\* The try block of get_access_token.
get_access_token_try(e, reply) ==
  IF NotSet(e, "TENANT_ID")
  THEN Raise("ValueError", "TENANT_ID environment variable is not set", "get_access_token")
  ELSE IF NotSet(e, "CLIENT_ID")
  THEN Raise("ValueError", "CLIENT_ID environment variable is not set", "get_access_token")
  ELSE IF NotSet(e, "CLIENT_SECRET")
  THEN Raise("ValueError", "CLIENT_SECRET environment variable is not set", "get_access_token")
  ELSE IF RequestExc(reply) # "none"
  THEN Raise(RequestExc(reply), "request failed", "get_access_token")
  ELSE IF reply.status_code # 200
  THEN Raise("HTTPError", "HTTP error status", "get_access_token")
  ELSE IF reply.json.shape # "object"
  THEN Raise("TypeError", "indices must be integers", "get_access_token")
  ELSE IF ~reply.json.has_token
  THEN Raise("KeyError", "'access_token'", "get_access_token")
  ELSE Return(reply.json.access_token)

\* get_access_token(): the try block and its except clauses.
get_access_token(e, reply) ==
  LET res == get_access_token_try(e, reply)
  IN  IF res.exc = "none" THEN res
      ELSE IF IsTimeout(res.exc)
      THEN Raise("Exception", "Authentication timeout: " \o res.msg, "get_access_token")
      ELSE IF IsRequestException(res.exc)
      THEN Raise("Exception", "Authentication failed: " \o res.msg, "get_access_token")
      ELSE IF res.exc = "KeyError"
      THEN Raise("Exception", "Invalid token response: " \o res.msg, "get_access_token")
      ELSE res

\* ------------------------------------------------------------- get_all_subscriptions
\* An entry of the subscription listing.
Subscription(i) ==
  [subscriptionId |-> "id" \o DecStr(i), displayName |-> "Sub " \o DecStr(i)]

\* The body of a listing response: an object whose "value" is a list.
ListJson(subs) == [shape |-> "object", value |-> subs]

\* The try block of get_all_subscriptions.
get_all_subscriptions_try(reply) ==
  IF RequestExc(reply) # "none"
  THEN Raise(RequestExc(reply), "request failed", "get_all_subscriptions")
  ELSE IF reply.status_code # 200
  THEN Raise("HTTPError", "HTTP error status", "get_all_subscriptions")
  ELSE IF reply.json.shape # "object"
  THEN Raise("AttributeError", "object has no attribute 'get'", "get_all_subscriptions")
  ELSE Return(reply.json.value)

\* A listing whose except clauses return the empty list, as those of
\* fetch_cost_for_subscription return the empty result.
get_all_subscriptions_absorbing(reply) ==
  LET res == get_all_subscriptions_try(reply)
  IN  IF res.exc = "none" THEN res ELSE Return(<< >>)

\* get_all_subscriptions(token): the try block and its except clauses.
get_all_subscriptions(reply) ==
  LET res == get_all_subscriptions_try(reply)
  IN  IF res.exc = "none" THEN res
      ELSE IF IsTimeout(res.exc)
      THEN Raise("Exception", "Subscription fetch timeout: " \o res.msg,
                 "get_all_subscriptions")
      ELSE IF IsRequestException(res.exc)
      THEN Raise("Exception", "Failed to fetch subscriptions: " \o res.msg,
                 "get_all_subscriptions")
      ELSE res

\* ------------------------------------------------------------- fetch_cost_for_subscription
\* The body of a cost query response: properties.rows, and whatever else the
\* body holds, which the code never reads (one number stands for it).
CostJson(rows, other) == [shape |-> "object", rows |-> rows, other |-> other]

\* {"properties": {"rows": [], "columns": []}}
EmptyCostData == CostJson(<< >>, 0)

\* The try block of fetch_cost_for_subscription.
fetch_cost_try(reply) ==
  IF RequestExc(reply) # "none"
  THEN Raise(RequestExc(reply), "request failed", "fetch_cost_for_subscription")
  ELSE IF reply.status_code # 200
  THEN Return(EmptyCostData)
  ELSE IF reply.json.shape # "object"
  THEN Raise("AttributeError", "object has no attribute 'get'",
             "fetch_cost_for_subscription")
  ELSE Return(reply.json)

\* A fetch whose except clauses re-raise, as those of get_all_subscriptions do.
fetch_cost_for_subscription_reraise(reply) == fetch_cost_try(reply)

\* A fetch that absorbs a Timeout and re-raises every other exception.
fetch_cost_for_subscription_timeout_only(reply) ==
  LET res == fetch_cost_try(reply)
  IN  IF res.exc = "none" THEN res
      ELSE IF IsTimeout(res.exc) THEN Return(EmptyCostData)
      ELSE res

\* fetch_cost_for_subscription(token, subscription_id, start_date, end_date):
\* both except clauses return the empty result.
fetch_cost_for_subscription(reply) ==
  LET res == fetch_cost_try(reply)
  IN  IF res.exc = "none" THEN res
      ELSE IF IsTimeout(res.exc) THEN Return(EmptyCostData)
      ELSE Return(EmptyCostData)

\* ------------------------------------------------------------- generate_csv
\* The status labels of the two variants.
NoDataStatus(v) == IF v = "blob_email" THEN "No usage data" ELSE "No Cost Data"

DataStatus(v, total_cost) ==
  IF v = "blob_email"
  THEN (IF FPositive(total_cost) THEN "Active" ELSE "No charges")
  ELSE "Success"

\* The cost cell of a row as csv.writer writes it: the blob_email variant
\* hands the writer round(x, 2), a float, which it writes with str(); the
\* email_only variant hands it f"{x:.2f}".
CostText(v, x) == IF v = "blob_email" THEN ReprRound2(x) ELSE Format2f(x)

\* "Extract cost": total_cost and status of one entry of all_costs_data.
extract_cost(v, cost_data) ==
  LET rows == cost_data.rows
  IN  IF Len(rows) = 0
      THEN Return([total_cost |-> Float(0), status |-> NoDataStatus(v)])
      ELSE IF Len(rows[1]) > 0
      THEN LET f == ToFloat(rows[1][1])
           IN  IF f.exc # "none" THEN f
               ELSE Return([total_cost |-> f.value, status |-> DataStatus(v, f.value)])
      ELSE Return([total_cost |-> Float(0), status |-> DataStatus(v, Float(0))])

HeaderRow ==
  << "Subscription Name", "Subscription ID", "From Date", "To Date",
     "Total Cost (USD)", "Status" >>

\* The loop over all_costs_data after its first n entries: the data rows
\* written so far and total_cost_all, or the exception that ended it.
RECURSIVE csv_loop(_, _, _, _, _)
csv_loop(v, all_costs_data, start_date, end_date, n) ==
  IF n = 0 THEN Return([rows |-> << >>, total_cost_all |-> Float(0)])
  ELSE LET before == csv_loop(v, all_costs_data, start_date, end_date, n - 1)
           sub_data == all_costs_data[n]
           cost == extract_cost(v, sub_data.cost_data)
       IN  IF before.exc # "none" THEN before
           ELSE IF cost.exc # "none" THEN cost
           ELSE Return(
             [rows |-> Append(before.value.rows,
                 << sub_data.subscription_name, sub_data.subscription_id,
                    start_date, end_date,
                    CostText(v, cost.value.total_cost), cost.value.status >>),
              total_cost_all |->
                 FAdd(before.value.total_cost_all, cost.value.total_cost)])

\* datetime.datetime.now().strftime('%Y-%m-%d %H:%M:%S'), sec seconds after
\* midnight of date d (sec < 60).
StrfTime(d, sec) == IsoFormat(d) \o " 00:00:" \o Pad2(sec)

\* The rows that follow the data rows: a blank row and the TOTAL row, and in
\* the blob_email variant a blank row and two summary rows.
csv_footer(v, total_cost_all, count, now) ==
  << << >>, << "TOTAL", "", "", "", CostText(v, total_cost_all), "" >> >>
  \o (IF v = "blob_email"
      THEN << << >>, << "Report Generated: " \o now >>,
              << "Total Subscriptions: " \o DecStr(count) >> >>
      ELSE << >>)

\* A generate_csv that walks all_costs_data from its last entry to its first.
generate_csv_reversed(v, all_costs_data, start_date, end_date, now) ==
  LET n == Len(all_costs_data)
      backwards == [i \in 1..n |-> all_costs_data[n + 1 - i]]
      loop == csv_loop(v, backwards, start_date, end_date, n)
  IN  IF loop.exc # "none" THEN loop
      ELSE Return(
        [csv_content |->
           << HeaderRow >> \o loop.value.rows \o csv_footer(v, loop.value.total_cost_all, n, now),
         total_cost_all |-> loop.value.total_cost_all])

\* generate_csv(all_costs_data, start_date, end_date): the text as the list
\* of its rows, each the list of its cells, and total_cost_all.  The except
\* clause logs and re-raises.
generate_csv(v, all_costs_data, start_date, end_date, now) ==
  LET loop == csv_loop(v, all_costs_data, start_date, end_date, Len(all_costs_data))
  IN  IF loop.exc # "none" THEN loop
      ELSE Return(
        [csv_content |->
           << HeaderRow >> \o loop.value.rows
           \o csv_footer(v, loop.value.total_cost_all, Len(all_costs_data), now),
         total_cost_all |-> loop.value.total_cost_all])

\* ------------------------------------------------------------- delivery sinks
\* blob_client.url of the blob named filename in the default container.
BlobUrl(filename) == "https://storage/azure-cost-reports/" \o filename

\* upload_to_blob_storage(csv_content, filename): the URL of the uploaded
\* blob; a ValueError for a missing connection string and any error of the
\* storage client are logged and re-raised.
upload_to_blob_storage(e, filename, outcome) ==
  IF NotSet(e, "AZURE_STORAGE_CONNECTION_STRING")
  THEN Raise("ValueError", "AZURE_STORAGE_CONNECTION_STRING environment variable is not set",
             "upload_to_blob_storage")
  ELSE IF outcome # "ok"
  THEN Raise("AzureError", "upload failed", "upload_to_blob_storage")
  ELSE Return(BlobUrl(filename))

\* The message send_email_with_acs / send_email_with_csv_attachment builds:
\* its subject, the summary figures of its body, and the blob link
\* (blob_email) or the attached CSV (email_only; sent base64-encoded).
EmailMessage(v, blob_url, csv_content, filename, window, total_cost, count) ==
  [subject |-> (IF v = "blob_email" THEN "Azure Cost Report - "
                ELSE "Azure Cost Report: ")
               \o window.start_date \o " to " \o window.end_date,
   total_cost |-> Format2f(total_cost),
   subscription_count |-> count,
   filename |-> filename,
   blob_url |-> IF v = "blob_email" THEN blob_url ELSE "",
   attachment |-> IF v = "blob_email" THEN << >> ELSE csv_content]

\* A send that logs the error of the email client and returns True.
send_email_swallowing(v, e, outcome) ==
  IF NotSet(e, "ACS_CONNECTION_STRING")
  THEN Raise("ValueError", "ACS_CONNECTION_STRING environment variable is not set",
             "send_email")
  ELSE IF NotSet(e, "ACS_SENDER_EMAIL")
  THEN Raise("ValueError", "ACS_SENDER_EMAIL environment variable is not set", "send_email")
  ELSE IF v = "email_only" /\ NotSet(e, "ACS_RECIPIENT_EMAIL")
  THEN Raise("ValueError", "ACS_RECIPIENT_EMAIL environment variable is not set",
             "send_email")
  ELSE Return(TRUE)

\* send_email_with_acs (blob_email) and send_email_with_csv_attachment
\* (email_only) up to the send: ValueError for a missing setting, any error of
\* the email client re-raised.
send_email(v, e, outcome) ==
  IF NotSet(e, "ACS_CONNECTION_STRING")
  THEN Raise("ValueError", "ACS_CONNECTION_STRING environment variable is not set",
             "send_email")
  ELSE IF NotSet(e, "ACS_SENDER_EMAIL")
  THEN Raise("ValueError", "ACS_SENDER_EMAIL environment variable is not set", "send_email")
  ELSE IF v = "email_only" /\ NotSet(e, "ACS_RECIPIENT_EMAIL")
  THEN Raise("ValueError", "ACS_RECIPIENT_EMAIL environment variable is not set",
             "send_email")
  ELSE IF outcome # "ok"
  THEN Raise("AzureError", "send failed", "send_email")
  ELSE Return(TRUE)

\* ------------------------------------------------------------- main's responses
HttpResponse(code, body) == [status_code |-> code, body |-> body]

\* The early return of step 1: required settings are missing.
MissingVarsResponse(missing) ==
  HttpResponse(500,
    [error |-> "Missing environment variables: " \o Join(missing),
     details |-> "Configure environment variables in Azure Portal"])

\* The early return of step 4: the listing is empty.
NoSubscriptionsResponse ==
  HttpResponse(404,
    [error |-> "No subscriptions found",
     details |-> "The service principal has no access to any subscriptions"])

\* main's except clauses without the last one: any other exception leaves main.
main_except_no_catch_all(res) ==
  IF IsValueError(res.exc)
  THEN Return(HttpResponse(500,
         [error |-> "Configuration error: " \o res.msg,
          type |-> "ConfigurationError", traceback |-> res.tb]))
  ELSE IF IsRequestException(res.exc)
  THEN Return(HttpResponse(500,
         [error |-> "Azure API error: " \o res.msg,
          type |-> "APIError", traceback |-> res.tb]))
  ELSE res

\* main's three except clauses, for an exception res raised in its try block:
\* ValueError, requests' RequestException, and Exception, which every
\* exception class of the model is.
main_except(res) ==
  IF IsValueError(res.exc)
  THEN Return(HttpResponse(500,
         [error |-> "Configuration error: " \o res.msg,
          type |-> "ConfigurationError", traceback |-> res.tb]))
  ELSE IF IsRequestException(res.exc)
  THEN Return(HttpResponse(500,
         [error |-> "Azure API error: " \o res.msg,
          type |-> "APIError", traceback |-> res.tb]))
  ELSE Return(HttpResponse(500,
         [error |-> res.msg, type |-> res.exc, traceback |-> res.tb]))

\* json.dumps(round(total_cost, 2))
JsonRound2(x) == IF x.nan THEN "NaN" ELSE ReprRound2(x)

\* f"azure_cost_report_{start_date}_to_{end_date}.csv"
Filename(window) ==
  "azure_cost_report_" \o window.start_date \o "_to_" \o window.end_date \o ".csv"

\* The response of a completed run.
SuccessResponse(v, blob_url, window, count, total_cost) ==
  HttpResponse(200,
    IF v = "blob_email"
    THEN [status |-> "success",
          message |-> "Cost report CSV uploaded to Blob Storage and email notification sent",
          blob_url |-> blob_url,
          report_period |-> window.start_date \o " to " \o window.end_date,
          total_subscriptions |-> count,
          total_cost |-> JsonRound2(total_cost),
          filename |-> Filename(window),
          email_sent |-> TRUE]
    ELSE [status |-> "success",
          message |-> "Cost report CSV sent directly via email",
          report_period |-> window.start_date \o " to " \o window.end_date,
          total_subscriptions |-> count,
          total_cost |-> JsonRound2(total_cost),
          filename |-> Filename(window),
          email_sent |-> TRUE])

\* ------------------------------------------------------------- inputs
\* The replies of the credential broker; t is the token it would issue.
TokenReplies(t) ==
  { TimeoutReply, ConnectionErrorReply, Response(401, Null),
    Response(200, NotAnObject), Response(200, NoTokenJson),
    Response(200, TokenJson(t)) }

\* The listings: the sequences without repetition of accounts 1..MaxSubs.
SubLists ==
  { [i \in DOMAIN g |-> Subscription(g[i])] :
      g \in { f \in UNION { [1..k -> 1..MaxSubs] : k \in 0..MaxSubs } :
                \A i, j \in DOMAIN f : i # j => f[i] # f[j] } }

\* The replies of the subscription listing.
ListReplies ==
  { TimeoutReply, ConnectionErrorReply, Response(403, Null),
    Response(200, NotAnObject) }
  \cup { Response(200, ListJson(subs)) : subs \in SubLists }

\* The first cell of the first row of a cost query result.
Cells == { NumCell(k) : k \in MinCost..MaxCost } \cup { NaNCell, TextCell, NullCell }

\* The replies of the cost query: failures, an empty result (with or without
\* a stray number elsewhere in the body), an empty first row, one cell.
CostReplies ==
  { TimeoutReply, ConnectionErrorReply, Response(429, Null),
    Response(200, NotAnObject), Response(200, CostJson(<< << >> >>, 0)) }
  \cup { Response(200, CostJson(<< >>, o)) : o \in {0, MaxCost} }
  \cup { Response(200, CostJson(<< << c >> >>, 0)) : c \in Cells }

SinkOutcomes == {"ok", "error"}

\* ------------------------------------------------------------- state
VARIABLES
  pc,              \* pc[r]: where run r of main is
  variant,         \* variant[r]: which function app run r is an invocation of
  env,             \* env[r]: os.environ of run r
  today,           \* today[r]: date.today() as read by get_previous_month_range
  token,           \* token[r]: main's token
  window,          \* window[r]: main's start_date, end_date
  subscriptions,   \* subscriptions[r]: main's subscriptions
  all_costs_data,  \* all_costs_data[r]: main's all_costs_data
  report,          \* report[r]: main's csv_content, total_cost
  blob_url,        \* blob_url[r]: main's blob_url
  response,        \* response[r]: the HttpResponses main has returned
  log,             \* log[r]: the helper calls of run r with their outcomes
  blobs,           \* the storage container: blob name -> content
  outbox,          \* the messages the email service accepted
  tokens_issued    \* the number of tokens the credential broker issued

vars ==
  << pc, variant, env, today, token, window, subscriptions, all_costs_data,
     report, blob_url, response, log, blobs, outbox, tokens_issued >>

\* The steps of main that go over the network.
NetworkOps == {"token", "list", "cost", "upload", "email"}

\* A logged call: the token, subscription id and window it was given (0, "",
\* NoWindow where it takes none), what its request met (outcome) and the
\* exception class the helper raised ("none" when it returned).
LogEntry(op, tok, sub, win, outcome, raised) ==
  [op |-> op, token |-> tok, sub |-> sub, window |-> win, outcome |-> outcome,
   raised |-> raised]

\* What a log entry records of a reply: the exception or the status code.
ReplyOutcome(reply) ==
  IF reply.kind # "response" THEN reply.kind
  ELSE IF reply.status_code # 200 THEN "status_not_200"
  ELSE IF reply.json.shape # "object" THEN "not_object"
  ELSE "ok"

NoWindow == [start_date |-> "", end_date |-> ""]
NoReport == [csv_content |-> << >>, total_cost_all |-> Float(0)]
NoDate == [year |-> 0, month |-> 0, day |-> 0]

Init ==
  /\ pc = [r \in Runs |-> "idle"]
  /\ variant = [r \in Runs |-> "none"]
  /\ env = [r \in Runs |-> << >>]
  /\ today = [r \in Runs |-> NoDate]
  /\ token = [r \in Runs |-> 0]
  /\ window = [r \in Runs |-> NoWindow]
  /\ subscriptions = [r \in Runs |-> << >>]
  /\ all_costs_data = [r \in Runs |-> << >>]
  /\ report = [r \in Runs |-> NoReport]
  /\ blob_url = [r \in Runs |-> ""]
  /\ response = [r \in Runs |-> << >>]
  /\ log = [r \in Runs |-> << >>]
  /\ blobs = << >>
  /\ outbox = << >>
  /\ tokens_issued = 0

\* ------------------------------------------------------------- main
\* main returns resp: the run is over.
Finish(r, resp) ==
  /\ response' = [response EXCEPT ![r] = Append(@, resp)]
  /\ pc' = [pc EXCEPT ![r] = "done"]

\* A helper raised res inside main's try block: main returns what its except
\* clauses build, or the exception leaves main and the run ends without a
\* response.
Failed(r, res) ==
  LET handled == main_except(res)
  IN  IF handled.exc = "none"
      THEN Finish(r, handled.value)
      ELSE /\ pc' = [pc EXCEPT ![r] = "escaped"]
           /\ UNCHANGED response

Logged(r, op, tok, sub, win, outcome, raised) ==
  log' = [log EXCEPT ![r] = Append(@, LogEntry(op, tok, sub, win, outcome, raised))]

\* The trigger invokes main of variant v in environment e.
Invoke(r, v, e) ==
  /\ pc[r] = "idle"
  /\ pc' = [pc EXCEPT ![r] = "validate"]
  /\ variant' = [variant EXCEPT ![r] = v]
  /\ env' = [env EXCEPT ![r] = e]
  /\ UNCHANGED << today, token, window, subscriptions, all_costs_data, report,
                  blob_url, response, log, blobs, outbox, tokens_issued >>

\* Step 1 without the early return: main goes on with whatever is set.
ValidateEnvNoCheck(r) ==
  /\ pc[r] = "validate"
  /\ pc' = [pc EXCEPT ![r] = "token"]
  /\ UNCHANGED << variant, env, today, token, window, subscriptions,
                  all_costs_data, report, blob_url, response, log, blobs, outbox,
                  tokens_issued >>

\* Step 1: validate environment variables.
ValidateEnv(r) ==
  /\ pc[r] = "validate"
  /\ LET missing == missing_vars(variant[r], env[r])
     IN  IF Len(missing) > 0
         THEN Finish(r, MissingVarsResponse(missing))
         ELSE /\ pc' = [pc EXCEPT ![r] = "token"]
              /\ UNCHANGED response
  /\ UNCHANGED << variant, env, today, token, window, subscriptions,
                  all_costs_data, report, blob_url, log, blobs, outbox,
                  tokens_issued >>

\* Step 2 with a module-level cache: a token another run holds is reused
\* without asking the broker.
GetAccessTokenCached(r, reply) ==
  /\ pc[r] = "token"
  /\ LET cached == { token[q] : q \in Runs } \ {0}
         res == IF cached # {} THEN Return(CHOOSE t \in cached : TRUE)
                ELSE get_access_token(env[r], reply)
         requested == /\ cached = {}
                      /\ \A var \in {"TENANT_ID", "CLIENT_ID", "CLIENT_SECRET"} :
                           ~NotSet(env[r], var)
     IN  /\ IF requested
            THEN Logged(r, "token", 0, "", NoWindow, ReplyOutcome(reply), res.exc)
            ELSE UNCHANGED log
         /\ tokens_issued' =
              IF requested /\ ReplyOutcome(reply) = "ok" /\ reply.json.has_token
              THEN tokens_issued + 1 ELSE tokens_issued
         /\ IF res.exc # "none"
            THEN /\ Failed(r, res)
                 /\ UNCHANGED token
            ELSE /\ token' = [token EXCEPT ![r] = res.value]
                 /\ pc' = [pc EXCEPT ![r] = "window"]
                 /\ UNCHANGED response
  /\ UNCHANGED << variant, env, today, window, subscriptions, all_costs_data,
                  report, blob_url, blobs, outbox >>

\* Step 2: token = get_access_token().  The request is made only when the
\* three credentials are set.
GetAccessToken(r, reply) ==
  /\ pc[r] = "token"
  /\ LET res == get_access_token(env[r], reply)
         requested == \A var \in {"TENANT_ID", "CLIENT_ID", "CLIENT_SECRET"} :
                         ~NotSet(env[r], var)
     IN  /\ IF requested
            THEN Logged(r, "token", 0, "", NoWindow, ReplyOutcome(reply), res.exc)
            ELSE UNCHANGED log
         /\ tokens_issued' =
              IF requested /\ ReplyOutcome(reply) = "ok" /\ reply.json.has_token
              THEN tokens_issued + 1 ELSE tokens_issued
         /\ IF res.exc # "none"
            THEN /\ Failed(r, res)
                 /\ UNCHANGED token
            ELSE /\ token' = [token EXCEPT ![r] = res.value]
                 /\ pc' = [pc EXCEPT ![r] = "window"]
                 /\ UNCHANGED response
  /\ UNCHANGED << variant, env, today, window, subscriptions, all_costs_data,
                  report, blob_url, blobs, outbox >>

\* Step 3: start_date, end_date = get_previous_month_range(), called on day d.
GetPreviousMonthRange(r, d) ==
  /\ pc[r] = "window"
  /\ today' = [today EXCEPT ![r] = d]
  /\ window' = [window EXCEPT ![r] = get_previous_month_range(d)]
  /\ Logged(r, "window", 0, "", NoWindow, "ok", "none")
  /\ pc' = [pc EXCEPT ![r] = "list"]
  /\ UNCHANGED << variant, env, token, subscriptions, all_costs_data, report,
                  blob_url, response, blobs, outbox, tokens_issued >>

\* Step 4 without the early return for an empty listing.
GetAllSubscriptionsNoCheck(r, reply) ==
  /\ pc[r] = "list"
  /\ LET res == get_all_subscriptions(reply)
     IN  /\ Logged(r, "list", token[r], "", NoWindow, ReplyOutcome(reply), res.exc)
         /\ IF res.exc # "none"
            THEN /\ Failed(r, res)
                 /\ UNCHANGED subscriptions
            ELSE /\ subscriptions' = [subscriptions EXCEPT ![r] = res.value]
                 /\ pc' = [pc EXCEPT ![r] = IF Len(res.value) = 0 THEN "render" ELSE "fetch"]
                 /\ UNCHANGED response
  /\ UNCHANGED << variant, env, today, token, window, all_costs_data, report,
                  blob_url, blobs, outbox, tokens_issued >>

\* Step 4: subscriptions = get_all_subscriptions(token); an empty listing
\* ends the run with 404.
GetAllSubscriptions(r, reply) ==
  /\ pc[r] = "list"
  /\ LET res == get_all_subscriptions(reply)
     IN  /\ Logged(r, "list", token[r], "", NoWindow, ReplyOutcome(reply), res.exc)
         /\ IF res.exc # "none"
            THEN /\ Failed(r, res)
                 /\ UNCHANGED subscriptions
            ELSE /\ subscriptions' = [subscriptions EXCEPT ![r] = res.value]
                 /\ IF Len(res.value) = 0
                    THEN Finish(r, NoSubscriptionsResponse)
                    ELSE /\ pc' = [pc EXCEPT ![r] = "fetch"]
                         /\ UNCHANGED response
  /\ UNCHANGED << variant, env, today, token, window, all_costs_data, report,
                  blob_url, blobs, outbox, tokens_issued >>

\* Step 5 with one retry: a cost query whose request failed is issued once
\* more before its result is taken.
FetchCostWithRetry(r, reply) ==
  /\ pc[r] = "fetch"
  /\ LET idx == Len(all_costs_data[r]) + 1
         subscription == subscriptions[r][idx]
         sub_id == subscription.subscriptionId
         sub_name == subscription.displayName
         res == fetch_cost_for_subscription(reply)
         retry == ReplyOutcome(reply) # "ok" /\ log[r][Len(log[r])].sub # sub_id
     IN  /\ Logged(r, "cost", token[r], sub_id, window[r], ReplyOutcome(reply), res.exc)
         /\ IF res.exc # "none"
            THEN /\ Failed(r, res)
                 /\ UNCHANGED all_costs_data
            ELSE IF retry
            THEN UNCHANGED << pc, response, all_costs_data >>
            ELSE /\ all_costs_data' = [all_costs_data EXCEPT ![r] =
                      Append(@, [subscription_id |-> sub_id,
                                 subscription_name |-> sub_name,
                                 cost_data |-> res.value])]
                 /\ pc' = [pc EXCEPT ![r] =
                      IF idx = Len(subscriptions[r]) THEN "render" ELSE "fetch"]
                 /\ UNCHANGED response
  /\ UNCHANGED << variant, env, today, token, window, subscriptions, report,
                  blob_url, blobs, outbox, tokens_issued >>

\* Step 5 with a loop that ends after its first turn.
FetchCostFirstOnly(r, reply) ==
  /\ pc[r] = "fetch"
  /\ LET idx == Len(all_costs_data[r]) + 1
         subscription == subscriptions[r][idx]
         sub_id == subscription.subscriptionId
         sub_name == subscription.displayName
         res == fetch_cost_for_subscription(reply)
     IN  /\ Logged(r, "cost", token[r], sub_id, window[r], ReplyOutcome(reply), res.exc)
         /\ IF res.exc # "none"
            THEN /\ Failed(r, res)
                 /\ UNCHANGED all_costs_data
            ELSE /\ all_costs_data' = [all_costs_data EXCEPT ![r] =
                      Append(@, [subscription_id |-> sub_id,
                                 subscription_name |-> sub_name,
                                 cost_data |-> res.value])]
                 /\ pc' = [pc EXCEPT ![r] = "render"]
                 /\ UNCHANGED response
  /\ UNCHANGED << variant, env, today, token, window, subscriptions, report,
                  blob_url, blobs, outbox, tokens_issued >>

\* Step 5, one turn of the loop: fetch the cost of the next subscription and
\* append it to all_costs_data.
FetchCost(r, reply) ==
  /\ pc[r] = "fetch"
  /\ LET idx == Len(all_costs_data[r]) + 1
         subscription == subscriptions[r][idx]
         sub_id == subscription.subscriptionId
         sub_name == subscription.displayName
         res == fetch_cost_for_subscription(reply)
     IN  /\ Logged(r, "cost", token[r], sub_id, window[r], ReplyOutcome(reply), res.exc)
         /\ IF res.exc # "none"
            THEN /\ Failed(r, res)
                 /\ UNCHANGED all_costs_data
            ELSE /\ all_costs_data' = [all_costs_data EXCEPT ![r] =
                      Append(@, [subscription_id |-> sub_id,
                                 subscription_name |-> sub_name,
                                 cost_data |-> res.value])]
                 /\ pc' = [pc EXCEPT ![r] =
                      IF idx = Len(subscriptions[r]) THEN "render" ELSE "fetch"]
                 /\ UNCHANGED response
  /\ UNCHANGED << variant, env, today, token, window, subscriptions, report,
                  blob_url, blobs, outbox, tokens_issued >>

\* Step 6: csv_content, total_cost = generate_csv(...), called sec seconds
\* after midnight.
GenerateCsv(r, sec) ==
  /\ pc[r] = "render"
  /\ \E res \in {generate_csv(variant[r], all_costs_data[r], window[r].start_date,
                              window[r].end_date, StrfTime(today[r], sec))} :
         /\ Logged(r, "render", 0, "", window[r], "ok", res.exc)
         /\ IF res.exc # "none"
            THEN /\ Failed(r, res)
                 /\ UNCHANGED report
            ELSE /\ report' = [report EXCEPT ![r] = res.value]
                 /\ pc' = [pc EXCEPT ![r] =
                      IF variant[r] = "blob_email" THEN "upload" ELSE "email"]
                 /\ UNCHANGED response
  /\ UNCHANGED << variant, env, today, token, window, subscriptions,
                  all_costs_data, blob_url, blobs, outbox, tokens_issued >>

\* Step 7 (blob_email): blob_url = upload_to_blob_storage(csv_content, filename);
\* upload_blob(..., overwrite=True) replaces a blob of the same name.
UploadToBlob(r, outcome) ==
  /\ pc[r] = "upload"
  /\ LET filename == Filename(window[r])
         res == upload_to_blob_storage(env[r], filename, outcome)
     IN  /\ IF NotSet(env[r], "AZURE_STORAGE_CONNECTION_STRING")
            THEN UNCHANGED log
            ELSE Logged(r, "upload", 0, "", window[r], outcome, res.exc)
         /\ IF res.exc # "none"
            THEN /\ Failed(r, res)
                 /\ UNCHANGED << blob_url, blobs >>
            ELSE /\ blobs' = [n \in DOMAIN blobs \cup {filename} |->
                               IF n = filename THEN report[r].csv_content ELSE blobs[n]]
                 /\ blob_url' = [blob_url EXCEPT ![r] = res.value]
                 /\ pc' = [pc EXCEPT ![r] = "email"]
                 /\ UNCHANGED response
  /\ UNCHANGED << variant, env, today, token, window, subscriptions,
                  all_costs_data, report, outbox, tokens_issued >>

\* Step 8 with a rollback: when the send fails, the blob uploaded in step 7
\* is deleted.
SendEmailWithRollback(r, outcome) ==
  /\ pc[r] = "email"
  /\ LET v == variant[r]
         count == Len(all_costs_data[r])
         res == send_email(v, env[r], outcome)
     IN  /\ IF res.exc = "ValueError"
            THEN UNCHANGED log
            ELSE Logged(r, "email", 0, "", window[r], outcome, res.exc)
         /\ IF res.exc # "none"
            THEN /\ Failed(r, res)
                 /\ blobs' = [n \in DOMAIN blobs \ {Filename(window[r])} |-> blobs[n]]
                 /\ UNCHANGED outbox
            ELSE /\ outbox' = Append(outbox,
                      EmailMessage(v, blob_url[r], report[r].csv_content,
                                   Filename(window[r]), window[r],
                                   report[r].total_cost_all, count))
                 /\ Finish(r, SuccessResponse(v, blob_url[r], window[r], count,
                                              report[r].total_cost_all))
                 /\ UNCHANGED blobs
  /\ UNCHANGED << variant, env, today, token, window, subscriptions,
                  all_costs_data, report, blob_url, tokens_issued >>

\* Step 8 (blob_email) / step 7 (email_only): send the email, then return the
\* success response.
SendEmail(r, outcome) ==
  /\ pc[r] = "email"
  /\ LET v == variant[r]
         count == Len(all_costs_data[r])
         res == send_email(v, env[r], outcome)
     IN  /\ IF res.exc = "ValueError"
            THEN UNCHANGED log
            ELSE Logged(r, "email", 0, "", window[r], outcome, res.exc)
         /\ IF res.exc # "none"
            THEN /\ Failed(r, res)
                 /\ UNCHANGED outbox
            ELSE /\ outbox' = Append(outbox,
                      EmailMessage(v, blob_url[r], report[r].csv_content,
                                   Filename(window[r]), window[r],
                                   report[r].total_cost_all, count))
                 /\ Finish(r, SuccessResponse(v, blob_url[r], window[r], count,
                                              report[r].total_cost_all))
  /\ UNCHANGED << variant, env, today, token, window, subscriptions,
                  all_costs_data, report, blob_url, blobs, tokens_issued >>

\* ------------------------------------------------------------- specifications
\* One step of run r.
Step(r) ==
  \/ pc[r] = "idle" /\ \E v \in Variants : \E e \in Envs(v) : Invoke(r, v, e)
  \/ ValidateEnv(r)
  \/ \E reply \in TokenReplies(tokens_issued + 1) : GetAccessToken(r, reply)
  \/ \E d \in RunDates : GetPreviousMonthRange(r, d)
  \/ \E reply \in ListReplies : GetAllSubscriptions(r, reply)
  \/ \E reply \in CostReplies : FetchCost(r, reply)
  \/ \E sec \in 0..MaxSecond : GenerateCsv(r, sec)
  \/ \E outcome \in SinkOutcomes : UploadToBlob(r, outcome)
  \/ \E outcome \in SinkOutcomes : SendEmail(r, outcome)

\* A single invocation of main.
Next == Step(1)

Spec == Init /\ [][Next]_vars

\* The state of run 1 when main reaches step 3: the settings validated, the
\* token acquired.
InitDate ==
  /\ pc = [r \in Runs |-> IF r = 1 THEN "window" ELSE "idle"]
  /\ \E v \in Variants :
       /\ variant = [r \in Runs |-> IF r = 1 THEN v ELSE "none"]
       /\ env = [r \in Runs |->
                   IF r = 1 THEN [x \in Range(required_vars(v)) |-> "set"] ELSE << >>]
  /\ today = [r \in Runs |-> NoDate]
  /\ token = [r \in Runs |-> IF r = 1 THEN 1 ELSE 0]
  /\ window = [r \in Runs |-> NoWindow]
  /\ subscriptions = [r \in Runs |-> << >>]
  /\ all_costs_data = [r \in Runs |-> << >>]
  /\ report = [r \in Runs |-> NoReport]
  /\ blob_url = [r \in Runs |-> ""]
  /\ response = [r \in Runs |-> << >>]
  /\ log = [r \in Runs |->
              IF r = 1 THEN << LogEntry("token", 0, "", NoWindow, "ok", "none") >>
              ELSE << >>]
  /\ blobs = << >>
  /\ outbox = << >>
  /\ tokens_issued = 1

\* get_previous_month_range on any day of the calendar.
NextDate == \E d \in AllDates : GetPreviousMonthRange(1, d)

SpecDate == InitDate /\ [][NextDate]_vars

\* The cost_data values fetch_cost_for_subscription can return.
CostDatas == { fetch_cost_for_subscription(reply).value : reply \in CostReplies }

\* The values of all_costs_data: for a listing, one entry per account with any
\* cost_data, as main's loop builds them; the empty list included.
CostLists ==
  UNION { { [i \in DOMAIN subs |->
               [subscription_id |-> subs[i].subscriptionId,
                subscription_name |-> subs[i].displayName,
                cost_data |-> c[i]]] : c \in [DOMAIN subs -> CostDatas] }
          : subs \in SubLists }

\* Two calls of generate_csv about to be made, one by each run, with the same
\* all_costs_data, start_date and end_date, on the same day.
InitCsv ==
  /\ pc = [r \in Runs |-> "render"]
  /\ \E v \in Variants :
       /\ variant = [r \in Runs |-> v]
       /\ env = [r \in Runs |-> [x \in Range(required_vars(v)) |-> "set"]]
  /\ \E d \in RunDates :
       /\ today = [r \in Runs |-> d]
       /\ window = [r \in Runs |-> get_previous_month_range(d)]
  /\ token = [r \in Runs |-> 0]
  /\ subscriptions = [r \in Runs |-> << >>]
  /\ \E data \in CostLists : all_costs_data = [r \in Runs |-> data]
  /\ report = [r \in Runs |-> NoReport]
  /\ blob_url = [r \in Runs |-> ""]
  /\ response = [r \in Runs |-> << >>]
  /\ log = [r \in Runs |-> << >>]
  /\ blobs = << >>
  /\ outbox = << >>
  /\ tokens_issued = 0

\* Either call is made, at any second.
NextCsv == \E r \in Runs : \E sec \in 0..MaxSecond : GenerateCsv(r, sec)

SpecCsv == InitCsv /\ [][NextCsv]_vars

\* Two invocations of main, their steps interleaved in any order, over a few
\* inputs: the settings all present or TENANT_ID absent, a day of January, a
\* token request that succeeds, times out or is refused, a listing of no, one
\* or two accounts or one that times out, a cost query that returns a cost or
\* times out.
StepOfTwo(r) ==
  \/ /\ pc[r] = "idle"
     /\ \E v \in Variants :
          \E e \in { [x \in Range(required_vars(v)) |-> "set"],
                     [x \in Range(required_vars(v)) |->
                        IF x = "TENANT_ID" THEN "absent" ELSE "set"] } :
            Invoke(r, v, e)
  \/ ValidateEnv(r)
  \/ \E reply \in { TimeoutReply, Response(401, Null),
                    Response(200, TokenJson(tokens_issued + 1)) } :
       GetAccessToken(r, reply)
  \/ \E d \in { x \in RunDates : x.month = 1 } : GetPreviousMonthRange(r, d)
  \/ \E reply \in { TimeoutReply, Response(200, ListJson(<< >>)),
                    Response(200, ListJson(<< Subscription(1) >>)),
                    Response(200, ListJson(<< Subscription(2), Subscription(1) >>)) } :
       GetAllSubscriptions(r, reply)
  \/ \E reply \in { TimeoutReply,
                    Response(200, CostJson(<< << NumCell(MaxCost) >> >>, 0)) } :
       FetchCost(r, reply)
  \/ GenerateCsv(r, 0)
  \/ \E outcome \in SinkOutcomes : UploadToBlob(r, outcome)
  \/ \E outcome \in SinkOutcomes : SendEmail(r, outcome)

NextTwoRuns == \E r \in Runs : StepOfTwo(r)

SpecTwoRuns == Init /\ [][NextTwoRuns]_vars

\* ------------------------------------------------------------- reading the state
\* The calls of run r to helper op, in order.
CallsOf(r, op) == LET IsOp(e) == e.op = op IN SelectSeq(log[r], IsOp)

\* The helpers run r has called.
Ops(r) == { log[r][i].op : i \in DOMAIN log[r] }

\* Run r called helper op and it returned normally.
Succeeded(r, op) == \E i \in DOMAIN log[r] : log[r][i].op = op /\ log[r][i].raised = "none"

\* Run r made no call over the network, or none of the ops.
NoCalls(r, ops) == Ops(r) \cap ops = {}

\* The i-th data row of the report of run r (row 1 is the header).
DataRow(r, i) == report[r].csv_content[i + 1]
CostCell(row) == row[5]
StatusCell(row) == row[6]

\* The TOTAL row of the report of run r: after the data rows and a blank row.
TotalRow(r) == report[r].csv_content[Len(all_costs_data[r]) + 3]

\* The amounts, in cents, a report within the bounds can show.
CentsRange ==
  (MaxSubs * RoundCents(MinCost) - 1) .. (RoundCents(MaxSubs * MaxCost) + 1)

\* text is the decimal notation of c cents, in either of the two formats.
Denotes(text, c) ==
  LET sign == IF c < 0 THEN "-" ELSE ""
  IN  text \in { sign \o ShortestDecimal(Abs(c)), sign \o FixedDecimal(Abs(c)) }

IsDecimal(text) == \E c \in CentsRange : Denotes(text, c)

\* The amount in cents a rendered cost cell shows.
DecimalValue(text) == CHOOSE c \in CentsRange : Denotes(text, c)

\* The status of run r's only response is code.
Responded(r, code) == Len(response[r]) = 1 /\ response[r][1].status_code = code

\* ------------------------------------------------------------- claims
\* C1: whatever the cost queries of a run do (succeed, time out, fail in
\* transport, answer non-200, answer nothing), main does not end at the fetch
\* step: after a cost query the run is still in the loop or at the render step,
\* with no response returned; it calls generate_csv with exactly one entry per
\* enumerated account, in order; and in the rendered report every account
\* whose query failed has the no-data status and a cost of 0.
C1_FetchOutcomesAbsorbed ==
  \A r \in Runs :
    LET calls == CallsOf(r, "cost")
        n == Len(log[r])
    IN  /\ (n > 0 /\ log[r][n].op = "cost") =>
             pc[r] \in {"fetch", "render"} /\ response[r] = << >>
        /\ (pc[r] = "render" \/ "render" \in Ops(r)) =>
             /\ Len(all_costs_data[r]) = Len(subscriptions[r])
             /\ \A i \in DOMAIN subscriptions[r] :
                  all_costs_data[r][i].subscription_id = subscriptions[r][i].subscriptionId
        /\ Succeeded(r, "render") =>
             \A i \in DOMAIN calls :
               calls[i].outcome # "ok" =>
                 /\ StatusCell(DataRow(r, i)) = NoDataStatus(variant[r])
                 /\ DecimalValue(CostCell(DataRow(r, i))) = 0

\* C1 witness: a report was rendered for two accounts, the query of the first
\* timed out and the query of the second returned a cost.
C1_Witness ==
  \E r \in Runs :
    /\ Succeeded(r, "render")
    /\ Len(CallsOf(r, "cost")) = 2
    /\ CallsOf(r, "cost")[1].outcome = "timeout"
    /\ CallsOf(r, "cost")[2].outcome = "ok"
    /\ StatusCell(DataRow(r, 2)) # NoDataStatus(variant[r])

\* C2: every call of fetch_cost_for_subscription returns a value (main gets an
\* entry for it), and a call that met a timeout, a transport failure, a non-200
\* answer or a body it could not read returns empty rows, from which the
\* renderer derives the no-data status and a total cost of 0.
C2_FetchNeverRaises ==
  \A r \in Runs :
    LET calls == CallsOf(r, "cost")
    IN  \A i \in DOMAIN calls :
          /\ i <= Len(all_costs_data[r])
          /\ calls[i].outcome # "ok" =>
               /\ Len(all_costs_data[r][i].cost_data.rows) = 0
               /\ extract_cost(variant[r], all_costs_data[r][i].cost_data) =
                    Return([total_cost |-> Float(0), status |-> NoDataStatus(variant[r])])

\* C2 witness: two queries were made, one failed in transport and one was
\* answered with a non-200 status.
C2_Witness ==
  \E r \in Runs :
    LET calls == CallsOf(r, "cost")
    IN  /\ Len(calls) = 2
        /\ { calls[1].outcome, calls[2].outcome } = {"connection_error", "status_not_200"}
        /\ Len(all_costs_data[r]) = 2

\* C3: when the listing succeeded with zero accounts, the run has ended with a
\* single 404 response and has made no cost query, no render, no upload and no
\* email send.
C3_NoAccounts404 ==
  \A r \in Runs :
    (Succeeded(r, "list") /\ Len(subscriptions[r]) = 0) =>
      /\ pc[r] = "done"
      /\ Responded(r, 404)
      /\ NoCalls(r, {"cost", "render", "upload", "email"})

\* C3 witness: a run whose listing was empty has ended.
C3_Witness ==
  \E r \in Runs : Succeeded(r, "list") /\ Len(subscriptions[r]) = 0 /\ pc[r] = "done"

\* C4: once main has validated an environment in which a required setting of
\* the variant is absent or empty, the run has ended with a single 500
\* response and its log holds no network call.
C4_MissingConfigNoNetwork ==
  \A r \in Runs :
    (pc[r] \notin {"idle", "validate"} /\ Len(missing_vars(variant[r], env[r])) > 0) =>
      /\ pc[r] = "done"
      /\ Responded(r, 500)
      /\ NoCalls(r, NetworkOps)

\* C4 witness: a run ended although only the email sender address, which no
\* step before the email send reads, was set to the empty string.
C4_Witness ==
  \E r \in Runs :
    /\ pc[r] = "done"
    /\ missing_vars(variant[r], env[r]) = << "ACS_SENDER_EMAIL" >>
    /\ env[r]["ACS_SENDER_EMAIL"] = "empty"

\* C5: a run that ended because a required setting was missing returned an
\* error response whose kind ("type") is ConfigurationError.
C5_MissingConfigKind ==
  \A r \in Runs :
    (pc[r] = "done" /\ Len(missing_vars(variant[r], env[r])) > 0) =>
      /\ "type" \in DOMAIN response[r][1].body
      /\ response[r][1].body.type = "ConfigurationError"

\* C6: every response of main whose status is not 200 has a body with an
\* error message, an error kind and a diagnostic trace.
C6_FailureBodyComplete ==
  \A r \in Runs :
    \A i \in DOMAIN response[r] :
      response[r][i].status_code # 200 =>
        {"error", "type", "traceback"} \subseteq DOMAIN response[r][i].body

\* Run r ended in an error: a setting was missing or a helper raised.
RunFailed(r) ==
  \/ Len(missing_vars(variant[r], env[r])) > 0
  \/ \E i \in DOMAIN log[r] : log[r][i].raised # "none"

\* What C7 says of the state of run r.
C7_Outcome(r) ==
  /\ pc[r] # "escaped"
  /\ Len(response[r]) <= 1
  /\ pc[r] = "done" <=> Len(response[r]) = 1
  /\ pc[r] = "done" =>
       LET code == response[r][1].status_code
       IN  /\ code \in {200, 404, 500}
           /\ code = 200 =>
                /\ Succeeded(r, "render")
                /\ Succeeded(r, "email")
                /\ variant[r] = "blob_email" => Succeeded(r, "upload")
           /\ code = 404 <=> (Succeeded(r, "list") /\ Len(subscriptions[r]) = 0)
           /\ code = 500 <=> RunFailed(r)

\* The number of steps run r can still take, at most: the stages ahead of it,
\* and within the fetch loop the subscriptions not yet fetched.
StagesLeft(stage) ==
  CASE stage = "idle" -> 9 [] stage = "validate" -> 8 [] stage = "token" -> 7
    [] stage = "window" -> 6 [] stage = "list" -> 5 [] stage = "fetch" -> 4
    [] stage = "render" -> 3 [] stage = "upload" -> 2 [] stage = "email" -> 1
    [] OTHER -> 0

Rank(r) ==
  StagesLeft(pc[r]) * (MaxSubs + 1)
  + (IF pc[r] = "fetch" THEN Len(subscriptions[r]) - Len(all_costs_data[r]) ELSE 0)

\* C7: every invocation of main ends, with exactly one response: a run that
\* has not ended can take a step, every step brings it closer to its end, and
\* no exception leaves main; the status is 200 only after the report was
\* rendered and every sink of the variant succeeded, 404 exactly when the
\* listing succeeded with zero accounts, and 500 exactly when a setting was
\* missing or a helper raised.
C7_OneResponse ==
  /\ [](\A r \in Runs :
          /\ C7_Outcome(r)
          /\ pc[r] \notin {"idle", "done"} => ENABLED Step(r))
  /\ [][\A r \in Runs :
          \/ pc'[r] = pc[r] /\ all_costs_data'[r] = all_costs_data[r]
          \/ Rank(r)' < Rank(r) /\ Rank(r)' >= 0]_vars

\* C7 witness: a run of the storage + email variant ended with 200.
C7_Witness ==
  \E r \in Runs : variant[r] = "blob_email" /\ pc[r] = "done" /\ Responded(r, 200)

\* The sum of the amounts the first n data rows of run r's report show.
RECURSIVE SumOfRows(_, _)
SumOfRows(r, n) ==
  IF n = 0 THEN 0
  ELSE SumOfRows(r, n - 1) + DecimalValue(CostCell(DataRow(r, n)))

\* C8: in a rendered report with at least one data row (and every cost cell a
\* decimal number), the amount of the TOTAL row is the sum of the amounts the
\* data rows show.
C8_TotalIsSumOfRows ==
  \A r \in Runs :
    ( /\ Succeeded(r, "render")
      /\ Len(all_costs_data[r]) > 0
      /\ IsDecimal(CostCell(TotalRow(r)))
      /\ \A i \in DOMAIN all_costs_data[r] : IsDecimal(CostCell(DataRow(r, i))) ) =>
      DecimalValue(CostCell(TotalRow(r))) = SumOfRows(r, Len(all_costs_data[r]))

\* The dates of the years the model covers, and of the year before them.
CalendarDates ==
  { d \in [year : Years, month : 1..12, day : 1..31] :
      d.day <= DaysInMonth(d.year, d.month) }

\* The day after d in the calendar.
NextDay(d) ==
  IF d.day < DaysInMonth(d.year, d.month) THEN [d EXCEPT !.day = d.day + 1]
  ELSE IF d.month < 12 THEN [year |-> d.year, month |-> d.month + 1, day |-> 1]
  ELSE [year |-> d.year + 1, month |-> 1, day |-> 1]

\* C9: for every date d read as today, the end of the window is the date whose
\* next day is the first day of d's month, and the start is the first day of
\* the end's month; for d in January of year Y the window is December 1 to
\* December 31 of year Y - 1.
C9_PreviousMonthWindow ==
  \A r \in Runs :
    today[r] # NoDate =>
      LET d == today[r]
      IN  /\ \E e \in CalendarDates :
               /\ NextDay(e) = [d EXCEPT !.day = 1]
               /\ window[r].end_date = IsoFormat(e)
               /\ window[r].start_date = IsoFormat([e EXCEPT !.day = 1])
          /\ d.month = 1 =>
               /\ window[r].start_date = DecStr(d.year - 1) \o "-12-01"
               /\ window[r].end_date = DecStr(d.year - 1) \o "-12-31"

\* C9 witness: the window was computed on a day of January.
C9_Witness ==
  \E r \in Runs :
    /\ today[r] # NoDate
    /\ today[r].month = 1
    /\ window[r].end_date = DecStr(today[r].year - 1) \o "-12-31"

\* C10: in a rendered report, the row of every account whose fetched rows are
\* empty shows the cost 0.00 and the no-data status.
C10_NoDataRowShowsZero ==
  \A r \in Runs :
    Succeeded(r, "render") =>
      \A i \in DOMAIN all_costs_data[r] :
        Len(all_costs_data[r][i].cost_data.rows) = 0 =>
          /\ CostCell(DataRow(r, i)) = "0.00"
          /\ StatusCell(DataRow(r, i)) = NoDataStatus(variant[r])

\* What the fetched data of one account records: "none" for no rows, "zero"
\* for a first row with no cell or the number 0, "positive" for a number
\* above 0, "other" for anything else (a negative number, NaN).
DataCase(cost_data) ==
  LET rows == cost_data.rows
  IN  IF Len(rows) = 0 THEN "none"
      ELSE IF Len(rows[1]) = 0 THEN "zero"
      ELSE IF rows[1][1].kind # "num" THEN "other"
      ELSE IF rows[1][1].v = 0 THEN "zero"
      ELSE IF rows[1][1].v > 0 THEN "positive"
      ELSE "other"

\* C11: in a rendered report the status label of a row is determined by what
\* its data records, with a label of its own for each of the three cases: no
\* data, data with a cost of exactly zero, a cost above zero.  Two rows of the
\* same case carry the same label and two rows of different cases carry
\* different labels.
C11_ThreeStatusLabels ==
  \A r \in Runs :
    Succeeded(r, "render") =>
      \A i, j \in DOMAIN all_costs_data[r] :
        LET ci == DataCase(all_costs_data[r][i].cost_data)
            cj == DataCase(all_costs_data[r][j].cost_data)
        IN  (ci # "other" /\ cj # "other") =>
              (ci = cj <=> StatusCell(DataRow(r, i)) = StatusCell(DataRow(r, j)))

\* Run r called generate_csv and the call is over.
Rendered(r) == "render" \in Ops(r)

\* C12: generate_csv called with an empty all_costs_data returns: its text is
\* the header row, no data row, a blank row and a TOTAL row whose cost reads
\* 0.00, and the total it returns is 0.
C12_EmptyReport ==
  \A r \in Runs :
    (Rendered(r) /\ all_costs_data[r] = << >>) =>
      /\ Succeeded(r, "render")
      /\ Len(report[r].csv_content) >= 3
      /\ report[r].csv_content[1] = HeaderRow
      /\ report[r].csv_content[2] = << >>
      /\ TotalRow(r)[1] = "TOTAL"
      /\ CostCell(TotalRow(r)) = "0.00"
      /\ report[r].total_cost_all = Float(0)

\* C13: two calls of generate_csv with the same all_costs_data, start_date and
\* end_date return the same text, whenever each is made.
C13_RenderIdempotent ==
  \A r1, r2 \in Runs :
    ( /\ Succeeded(r1, "render") /\ Succeeded(r2, "render")
      /\ variant[r1] = variant[r2]
      /\ all_costs_data[r1] = all_costs_data[r2]
      /\ window[r1] = window[r2] ) =>
      report[r1].csv_content = report[r2].csv_content

\* The data rows of a text: its rows of six cells other than the header row
\* and the TOTAL row.
DataRows(csv_content) ==
  LET IsData(row) == Len(row) = 6 /\ row # HeaderRow /\ row[1] # "TOTAL"
  IN  SelectSeq(csv_content, IsData)

\* C14: the rendered report of a run has exactly one data row per account of
\* the listing, in the order of the listing: the i-th data row carries the
\* name and the id of the i-th account.
C14_RowPerAccountInOrder ==
  \A r \in Runs :
    Succeeded(r, "render") =>
      LET data == DataRows(report[r].csv_content)
      IN  /\ Len(data) = Len(subscriptions[r])
          /\ \A i \in DOMAIN data :
               /\ data[i][1] = subscriptions[r][i].displayName
               /\ data[i][2] = subscriptions[r][i].subscriptionId

\* C14 witness: a report was rendered for a listing that returned account 2
\* before account 1.
C14_Witness ==
  \E r \in Runs :
    /\ Succeeded(r, "render")
    /\ subscriptions[r] = << Subscription(2), Subscription(1) >>
    /\ Len(DataRows(report[r].csv_content)) = 2

\* The helper calls that may come directly before a call of op in run r.
StageBefore(r, op) ==
  CASE op = "token" -> {}
    [] op = "window" -> {"token"}
    [] op = "list" -> {"window"}
    [] op = "cost" -> {"list", "cost"}
    [] op = "render" -> {"cost"}
    [] op = "upload" -> {"render"}
    [] op = "email" -> IF variant[r] = "blob_email" THEN {"upload"} ELSE {"render"}

\* What C15 says of the calls run r has made so far.
C15_Order(r) ==
  LET L == log[r]
  IN  /\ \A j \in DOMAIN L :
           /\ j = 1 => L[j].op = "token"
           /\ j > 1 => /\ L[j - 1].op \in StageBefore(r, L[j].op)
                       /\ L[j - 1].raised = "none"
           /\ L[j].op = "cost" =>
                /\ Succeeded(r, "list")
                /\ Len(CallsOf(r, "cost")) <= Len(subscriptions[r])
           /\ L[j].op = "render" =>
                Len(SelectSeq(SubSeq(L, 1, j - 1), LAMBDA e : e.op = "cost"))
                  = Len(subscriptions[r])
           /\ L[j].op \in {"upload", "email"} => Succeeded(r, "render")
      /\ response[r] # << >> => pc[r] = "done"
      /\ Responded(r, 200) => L[Len(L)].op = "email" /\ L[Len(L)].raised = "none"

\* C15: the helper calls of a run come in the order token, window, listing,
\* one cost query per account, render, sinks, each starting after the one
\* before it returned normally: no cost query before the listing returned,
\* render after exactly as many cost queries as there are accounts, no sink
\* before generate_csv returned; the response is built last, no call follows it.
C15_StagesInOrder ==
  /\ [](\A r \in Runs : C15_Order(r))
  /\ [][\A r \in Runs : response[r] # << >> => log'[r] = log[r]]_vars

\* C15 witness: a run of the storage + email variant over two accounts went
\* through all the stages and returned 200.
C15_Witness ==
  \E r \in Runs :
    /\ Responded(r, 200)
    /\ [i \in DOMAIN log[r] |-> log[r][i].op]
         = << "token", "window", "list", "cost", "cost", "render", "upload", "email" >>

\* The call e failed: its request timed out, was refused, was answered with a
\* status other than 200 or with a body of the wrong shape, or it raised.
CallFailed(e) == e.outcome # "ok" \/ e.raised # "none"

TokenFailureKinds(e) ==
  { main_except(get_access_token(e, reply)).value.body.type :
      reply \in { x \in TokenReplies(1) : get_access_token(e, x).exc # "none" } }

ListFailureKinds ==
  { main_except(get_all_subscriptions(reply)).value.body.type :
      reply \in { x \in ListReplies : get_all_subscriptions(x).exc # "none" } }

\* C17: the error kind of the response tells a failure of the token call from
\* a failure of the listing call: the kind reported for a failed token call is
\* none of the kinds a failed listing is reported with, and the kind reported
\* for a failed listing is none of the kinds a failed token call is reported
\* with.
C17_AuthAndApiKindsDiffer ==
  \A r \in Runs :
    \A i \in DOMAIN log[r] :
      (CallFailed(log[r][i]) /\ Responded(r, 500)) =>
        /\ log[r][i].op = "token" => response[r][1].body.type \notin ListFailureKinds
        /\ log[r][i].op = "list" =>
             response[r][1].body.type \notin TokenFailureKinds(env[r])

\* The positions in the log of run r of its calls to helper op.
CallPositions(r, op) == { i \in DOMAIN log[r] : log[r][i].op = op }

\* C18: in the storage + email variant the upload is attempted before the
\* email send, never after it; and when the upload succeeded and the send
\* failed, the run ended with a 500 response while the blob is still in the
\* container under the URL the upload returned, with the content uploaded.
C18_UploadSurvivesEmailFailure ==
  \A r \in Runs :
    variant[r] = "blob_email" =>
      /\ \A e \in CallPositions(r, "email") :
           /\ \A u \in CallPositions(r, "upload") : u < e
           /\ Succeeded(r, "upload")
      /\ ( /\ Succeeded(r, "upload")
           /\ \E e \in CallPositions(r, "email") : CallFailed(log[r][e]) ) =>
           /\ pc[r] = "done"
           /\ Responded(r, 500)
           /\ Filename(window[r]) \in DOMAIN blobs
           /\ blobs[Filename(window[r])] = report[r].csv_content
           /\ blob_url[r] = BlobUrl(Filename(window[r]))

\* C18 witness: a run uploaded its report and then failed to send the email.
C18_Witness ==
  \E r \in Runs :
    /\ variant[r] = "blob_email"
    /\ Succeeded(r, "upload")
    /\ \E e \in CallPositions(r, "email") : CallFailed(log[r][e])
    /\ Responded(r, 500)

\* C19: a run that has made a cost query has made exactly one listing call
\* and computed one window; its i-th cost query is for the i-th account of the
\* listing and carries that window, so no account is queried twice, whatever
\* its query met; and once the loop is over there is exactly one cost query
\* per account.  (The listing call takes no window.)
C19_OneCallPerAccount ==
  \A r \in Runs :
    LET cost == CallsOf(r, "cost")
    IN  Len(cost) > 0 =>
          /\ Len(CallsOf(r, "list")) = 1
          /\ Len(CallsOf(r, "window")) = 1
          /\ Len(cost) <= Len(subscriptions[r])
          /\ \A i \in DOMAIN cost :
               /\ cost[i].sub = subscriptions[r][i].subscriptionId
               /\ cost[i].window = window[r]
               /\ cost[i].window # NoWindow
          /\ \A i, j \in DOMAIN cost : i # j => cost[i].sub # cost[j].sub
          /\ pc[r] # "fetch" => Len(cost) = Len(subscriptions[r])

\* C19 witness: a run over two accounts whose first cost query timed out has
\* left the loop.
C19_Witness ==
  \E r \in Runs :
    /\ Len(CallsOf(r, "cost")) = 2
    /\ CallsOf(r, "cost")[1].outcome = "timeout"
    /\ pc[r] \notin {"fetch", "render"}

\* The calls of run r to the management API: the listing and the cost queries.
ManagementCalls(r) == { i \in DOMAIN log[r] : log[r][i].op \in {"list", "cost"} }

\* C20: a run that has called the management API asked the broker for a token
\* exactly once, before its first management call; every listing and cost
\* query of the run carries the token that request returned; and no call of
\* another run carries it.
C20_OneTokenPerRun ==
  \A r \in Runs :
    ManagementCalls(r) # {} =>
      /\ Len(CallsOf(r, "token")) = 1
      /\ \A t \in CallPositions(r, "token") :
           /\ log[r][t].raised = "none"
           /\ \A i \in ManagementCalls(r) : t < i
      /\ token[r] # 0
      /\ \A i \in ManagementCalls(r) : log[r][i].token = token[r]
      /\ \A q \in Runs \ {r} :
           /\ token[q] # token[r]
           /\ \A i \in DOMAIN log[q] : log[q][i].token # token[r]

\* C20 witness: two runs have both queried costs, each with a token of its own.
C20_Witness ==
  \A r \in Runs :
    /\ Len(CallsOf(r, "cost")) = 2
    /\ token[r] # 0
    /\ \A q \in Runs \ {r} : token[q] # token[r]

\* The status labels generate_csv gives the rows whose cost is a finite number.
OrdinaryStatuses(v) == { DataStatus(v, Float(k)) : k \in MinCost..MaxCost }

\* C21: when generate_csv was called with an entry whose cost cell is
\* not-a-number, either the call raised, or the row of that entry shows a cost
\* of zero and a status that no row with a finite cost carries.
C21_NaNNotPassedThrough ==
  \A r \in Runs :
    Rendered(r) =>
      \A i \in DOMAIN all_costs_data[r] :
        DataCase(all_costs_data[r][i].cost_data) = "other"
          /\ all_costs_data[r][i].cost_data.rows[1][1].kind = "nan" =>
          \/ ~Succeeded(r, "render")
          \/ /\ IsDecimal(CostCell(DataRow(r, i)))
             /\ DecimalValue(CostCell(DataRow(r, i))) = 0
             /\ StatusCell(DataRow(r, i)) \notin OrdinaryStatuses(variant[r])

\* C22: a response of main has the kind ConfigurationError only in a run in
\* which a required setting was absent or empty; no failure that comes after
\* the settings were validated is reported with that kind.
C22_ConfigurationErrorOnlyForSettings ==
  \A r \in Runs :
    \A i \in DOMAIN response[r] :
      ( /\ "type" \in DOMAIN response[r][i].body
        /\ response[r][i].body.type = "ConfigurationError" ) =>
        Len(missing_vars(variant[r], env[r])) > 0

\* Run r called the sink op, the service accepted the request and the helper
\* returned.
SinkSucceeded(r, op) ==
  \E i \in CallPositions(r, op) : log[r][i].outcome = "ok" /\ log[r][i].raised = "none"

\* C23: a run answered 200 (with email_sent true) only after each sink of its
\* variant returned successfully: the email send, and in the storage + email
\* variant the upload before it.  In that variant the message sent links the
\* URL the upload returned, the blob is in the container under that name, and
\* the response's blob_url is that URL.  The response's total_subscriptions is
\* the number of accounts the listing returned.
C23_SuccessAfterSinks ==
  \A r \in Runs :
    Responded(r, 200) =>
      LET body == response[r][1].body
          url == BlobUrl(Filename(window[r]))
      IN  /\ body.email_sent = TRUE
          /\ SinkSucceeded(r, "email")
          /\ Len(outbox) = 1
          /\ body.total_subscriptions = Len(subscriptions[r])
          /\ outbox[1].subscription_count = Len(subscriptions[r])
          /\ variant[r] = "blob_email" =>
               /\ SinkSucceeded(r, "upload")
               /\ \A u \in CallPositions(r, "upload") :
                    \A e \in CallPositions(r, "email") : u < e
               /\ Filename(window[r]) \in DOMAIN blobs
               /\ blob_url[r] = url
               /\ outbox[1].blob_url = url
               /\ body.blob_url = url
          /\ variant[r] = "email_only" =>
               /\ NoCalls(r, {"upload"})
               /\ outbox[1].attachment = report[r].csv_content

\* C23 witness: a run of the storage + email variant over two accounts
\* answered 200 and its message is in the outbox.
C23_Witness ==
  \E r \in Runs :
    /\ Responded(r, 200)
    /\ variant[r] = "blob_email"
    /\ Len(subscriptions[r]) = 2
    /\ Len(outbox) = 1
    /\ outbox[1].blob_url = response[r][1].body.blob_url

\* The runs whose upload returned, and the cost cell of the TOTAL row of a text.
Uploaded == { r \in Runs : SinkSucceeded(r, "upload") }

TotalCell(csv_content) ==
  CostCell(csv_content[CHOOSE i \in DOMAIN csv_content :
                         Len(csv_content[i]) = 6 /\ csv_content[i][1] = "TOTAL"])

\* Two cost texts show the same amount (0.0 and 0.00 do; nan only shows nan).
SameAmount(a, b) ==
  IF IsDecimal(a) /\ IsDecimal(b) THEN DecimalValue(a) = DecimalValue(b) ELSE a = b

\* C24: the container holds one blob per window for which a run uploaded, under
\* the name made of that window; and a run of the storage + email variant that
\* is about to send its email finds at the URL it mails a report with as many
\* data rows as the subscription count of its message and with the total of
\* its message, whatever another invocation for the same window did meanwhile.
C24_MailedObjectIsOwnReport ==
  /\ DOMAIN blobs = { Filename(window[r]) : r \in Uploaded }
  /\ \A r \in Uploaded : blob_url[r] = BlobUrl(Filename(window[r]))
  /\ \A r \in Runs :
       (variant[r] = "blob_email" /\ pc[r] = "email") =>
         LET object == blobs[Filename(window[r])]
             message == EmailMessage(variant[r], blob_url[r], report[r].csv_content,
                                     Filename(window[r]), window[r],
                                     report[r].total_cost_all, Len(all_costs_data[r]))
         IN  /\ Len(DataRows(object)) = message.subscription_count
             /\ SameAmount(TotalCell(object), message.total_cost)

====
